---- MODULE Spec2Model ----
(***************************************************************************)
(* web_ipc: the authenticated transport server (session table, submit and  *)
(* authenticate routes, supervisor sweep) and the transport client (retry  *)
(* and re-authentication loop).                                            *)
(*                                                                         *)
(* Time is counted in ticks of half an hour.  The request handlers are     *)
(* coroutines of one event loop (async def, no await after the body has    *)
(* been read), so one handler runs at a time; the sweep runs in the        *)
(* supervisor's control thread, in another process, and the session table  *)
(* is a Manager dict: every single dict operation is atomic, a sequence of *)
(* them is not.  So a handler and the sweep interleave operation by        *)
(* operation.                                                              *)
(***************************************************************************)
EXTENDS Integers, Sequences, FiniteSets, TLC

VARIABLES now, clients, queue, h, sw, cl, sup, ca, wire

vars == <<now, clients, queue, h, sw, cl, sup, ca, wire>>

\* ---------------------------------------------------------------- bounds
MaxTime == 3
MaxCalls == 2
QueueCap == 2
\* calls that issue a certificate
MaxIssuances == 4
\* messages run_test sends
MaxSends == 3
\* the values in a message; the timestamps and IVs of a token
MaxVal == 1
MaxStamp == 1

\* ------------------------------------------------------ program constants
\* timedelta(hours=1), in ticks
SessionTTL == 2
\* while attempt < 4
AttemptLimit == 4

Addrs == {"a1", "a2"}
ClientAddr == "a1"

\* status codes: 405 is the client's own code for a connection error
OK == 200
UNAUTHORIZED == 401
CONN_ERROR == 405
EXPIRED == 419
FAILED == 500

\* the control thread sweeps and looks at the worker every 60th turn
SweepEvery == 60

\* the server's key and another one
Key == "k"
OtherKey == "x"

\* ------------------------------------------------------------- envelope
\* a python value: a dict or something else; None is the failed load
None == [type |-> "none", data |-> "none"]
Dict(d) == [type |-> "dict", data |-> d]
NonDict == [type |-> "list", data |-> "none"]

Garbage == [key |-> "none", val |-> None]

\* WebUtils.pickle_dumps: the value sealed under the key
pickle_dumps(v, k) == [key |-> k, val |-> v]

\* WebUtils.pickle_loads: any failure of decrypt or unpickle gives None
pickle_loads(body, k) == IF body.key = k THEN body.val ELSE None

IsDict(v) == v.type = "dict"

\* WebDB.authenticate_user on data.get('username'), data.get('password')
authenticate_user(v) == v.data = "good"

\* ------------------------------------------------------------- requests
\* x-forwarded-for is a comma separated list, here a sequence of addresses
Headers == {<<>>, <<"a2">>, <<"a2", "a1">>}

\* WebServer.__get_client_ip
\* mutant of get_client_ip: the header is not looked at
get_client_ip_Socket(fwd, sock) == sock

get_client_ip(fwd, sock) == IF fwd # <<>> THEN Head(fwd) ELSE sock

\* the request as it came in: the socket address and the first value of
\* x-forwarded-for ("none" without the header)
From(hh, fwd, sock) ==
    [hh EXCEPT !.sock = sock, !.fwd = IF fwd # <<>> THEN Head(fwd) ELSE "none"]

\* the entry of ip is absent or expired at time t
Stale(ip, t) == ip \notin DOMAIN clients \/ ~(clients[ip] > t)

\* the message of the client's k-th call
Msg(k) == "m" \o ToString(k)

\* what a peer that is not the client sends to the two POST routes
EnvSubmitBodies == {Garbage, pickle_dumps(NonDict, Key), pickle_dumps(Dict("e"), Key),
                    pickle_dumps(Dict("e"), OtherKey)}
EnvAuthBodies == {Garbage, pickle_dumps(NonDict, Key), pickle_dumps(Dict("good"), Key),
                  pickle_dumps(Dict("bad"), Key), pickle_dumps(Dict("good"), OtherKey)}

\* ----------------------------------------------------------------- state
\* h: the request handler the event loop is running (src: who waits for
\* the response; stale: the caller's entry was absent or expired when the
\* request arrived; call: the client call the body belongs to, 0 if none;
\* sock, fwd: the socket address and the first x-forwarded-for value of a
\* peer's request)
HIdle == [pc |-> "idle", route |-> "none", ip |-> "none", msg |-> None,
          src |-> "none", stale |-> FALSE, status |-> 0, call |-> 0,
          sock |-> "none", fwd |-> "none"]

\* sw: the sweep of the control thread
SwIdle == [pc |-> "idle", keys |-> {}, now |-> 0, ip |-> "none"]

\* cl: the client (rsps: the status of each submit attempt of the running
\* send_msg, auths: the result of each _authenticate it triggered, enq: how
\* often the sink received the message of the running or last send_msg,
\* until: the expiresAt the server has set for the client's address in the
\* last authenticate it accepted, 0 if none, top: the latest send_msg of
\* which the sink has received the message, 0 if none)
ClIdle == [pc |-> "idle", op |-> "none", attempt |-> 0, rsps |-> <<>>,
           auths |-> <<>>, result |-> "none", calls |-> 0, enq |-> 0,
           creds |-> "good", until |-> 0, top |-> 0]

\* sup: the supervisor.  thread, process: what self.__thread and
\* self.__process refer to ("none", or an object that is "alive" or
\* "dead"); tpc, cnt, tres: where the control thread is, its loop counter
\* and what it returned; stop: self.__thread_stop; orphans, lost: worker
\* processes and control threads that are alive and no longer referred to;
\* cpc, cop, cres: the call of start() or stop() the application is in or
\* has made last, and its result; prev: the call before it; calls: the
\* number of calls made, modulo 2; opc: where a second application thread
\* is in a start() of its own
SupIdle == [thread |-> "none", tpc |-> "none", cnt |-> 0, tres |-> "none",
            stop |-> FALSE, process |-> "none", orphans |-> 0, lost |-> 0,
            cpc |-> "idle", cop |-> "none", cres |-> "none",
            prev |-> [op |-> "none", res |-> "none"], calls |-> 0,
            opc |-> "idle"]

\* ca: the certificate store after Init.__create_ca_serial_handler has
\* written '1' to the ca-serial file.  serial: the number in the file;
\* rootCert, rootKey: which root certificate and which root key are in
\* the files web-ipc-ca.crt and web-ipc-ca.key (0: no file, k: those of
\* the k-th root made); roots: the number of root certificates saved;
\* leafCert, leafKey: the serial number of the certificate in the .crt
\* file of the name certificates are asked for, and of the certificate
\* whose key is in its .key file (0: no file);
\* issued: the serial numbers of the certificates issued with success, in
\* order; base, from: the counter, and the length of issued, when a
\* serial number was last taken by an issuance that failed; calls: the
\* number of calls of create() and _initialize_cert_authority(); p: the
\* issuing processes, each with where it is, what it issues, the serial
\* it has read, the result of its last call, the force argument of the
\* call, and the counter and the root files as they were when the call
\* began
CaIdle == [pc |-> "idle", kind |-> "none", serial |-> 0, res |-> "none",
           force |-> FALSE, s0 |-> 0, r0 |-> <<0, 0>>]

CaInit == [serial |-> 1, rootCert |-> 0, rootKey |-> 0, roots |-> 0,
           leafCert |-> 0, leafKey |-> 0,
           issued |-> <<>>, base |-> 1, from |-> 0, calls |-> 0,
           p |-> <<CaIdle, CaIdle>>]

\* -------------------------------------------------------------- envelope
\* pickle_dumps and pickle_loads as they compute: pickle, then Fernet (a
\* version byte, a timestamp, an IV, the AES-CBC ciphertext of the padded
\* pickle, an HMAC over all of it), then the base64 text of the token.
\* In small: a byte has 4 bits and a character of the text 3, so that 3
\* bytes make 4 characters, as in base64.
Pad == 8
Junk == 9
Symbols == 0..9
Version == 8
BlockLen == 2
TagLen == 2
FernetKeys == {3, 5}

\* the messages: mappings of the names "a" and "b" to 0..MaxVal
Names == {"a", "b"}
Messages == UNION {[S -> 0..MaxVal] : S \in SUBSET Names}
EmptyDict == [n \in {} |-> 0]

\* what a call returns: a value, or nothing after an exception
Returned(v) == [ok |-> TRUE, val |-> v]
Raised == [ok |-> FALSE, val |-> EmptyDict]
Failed == [ok |-> FALSE, val |-> <<>>]

\* pickle opcodes: EMPTY_DICT, SHORT_BINUNICODE, BININT1, SETITEM, STOP
OpDict == 13
OpStr == 12
OpInt == 11
OpSet == 10
OpStop == 14
StrCode(n) == IF n = "a" THEN 1 ELSE 2
StrOf(c) == IF c = 1 THEN "a" ELSE "b"

Item(m, n) ==
    IF n \in DOMAIN m THEN <<OpStr, StrCode(n), OpInt, m[n], OpSet>> ELSE <<>>

\* pickle.dumps of a mapping
dumps(m) == <<OpDict>> \o Item(m, "a") \o Item(m, "b") \o <<OpStop>>

RECURSIVE load_items(_, _, _)
load_items(b, i, acc) ==
    IF i > Len(b) THEN Raised
    ELSE IF b[i] = OpStop THEN Returned(acc)
    ELSE IF /\ i + 4 <= Len(b)
            /\ b[i] = OpStr /\ b[i + 1] \in {1, 2}
            /\ b[i + 2] = OpInt /\ b[i + 4] = OpSet
         THEN load_items(b, i + 5,
                         [n \in DOMAIN acc \cup {StrOf(b[i + 1])} |->
                            IF n = StrOf(b[i + 1]) THEN b[i + 3] ELSE acc[n]])
         ELSE Raised

\* pickle.loads: reads up to STOP, raises on anything it cannot read
loads(b) ==
    IF b # <<>> /\ b[1] = OpDict THEN load_items(b, 2, EmptyDict) ELSE Raised

\* PKCS7 padding and its removal
pkcs7(p) ==
    LET n == BlockLen - (Len(p) % BlockLen)
    IN  p \o [i \in 1..n |-> n]

unpad(p) ==
    IF p = <<>> THEN Failed
    ELSE LET n == p[Len(p)]
         IN  IF /\ n \in 1..BlockLen /\ n <= Len(p)
                /\ \A i \in (Len(p) - n + 1)..Len(p) : p[i] = n
             THEN Returned(SubSeq(p, 1, Len(p) - n))
             ELSE Failed

\* the cipher in CBC mode: each byte is chained to the cipher byte before
RECURSIVE cbc_encrypt(_, _, _)
cbc_encrypt(p, k, prev) ==
    IF p = <<>> THEN <<>>
    ELSE LET c == (Head(p) + k + prev) % 16
         IN  <<c>> \o cbc_encrypt(Tail(p), k, c)

\* mutant of cbc_decrypt: every byte is decrypted with the IV
cbc_decrypt_NoChain(c, k, iv) ==
    [i \in 1..Len(c) |-> (c[i] + 32 - k - iv) % 16]

cbc_decrypt(c, k, iv) ==
    [i \in 1..Len(c) |-> (c[i] + 32 - k - (IF i = 1 THEN iv ELSE c[i - 1])) % 16]

RECURSIVE Sum(_)
Sum(s) == IF s = <<>> THEN 0 ELSE Head(s) + Sum(Tail(s))

RECURSIVE Weighted(_)
Weighted(s) == IF s = <<>> THEN 0 ELSE Len(s) * s[Len(s)] + Weighted(SubSeq(s, 1, Len(s) - 1))

\* the HMAC of the signed part of a token
hmac(k, s) == <<(7 * k + Weighted(s)) % 16, (k + Sum(s)) % 16>>

\* base64.urlsafe_b64encode
RECURSIVE b64encode(_)
b64encode(b) ==
    IF b = <<>> THEN <<>>
    ELSE IF Len(b) = 1
         THEN LET n == b[1] * 4 IN <<n \div 8, n % 8, Pad, Pad>>
    ELSE IF Len(b) = 2
         THEN LET n == (b[1] * 16 + b[2]) * 2
              IN  <<n \div 64, (n \div 8) % 8, n % 8, Pad>>
    ELSE LET n == b[1] * 256 + b[2] * 16 + b[3]
         IN  <<n \div 512, (n \div 64) % 8, (n \div 8) % 8, n % 8>>
             \o b64encode(SubSeq(b, 4, Len(b)))

\* binascii.a2b_base64 without strict_mode: characters outside the
\* alphabet are skipped, a complete padding ends the input, and the bits
\* left over in the last character are dropped
RECURSIVE a2b_base64(_, _, _, _, _, _)
a2b_base64(t, i, quad_pos, leftchar, pads, out) ==
    IF i > Len(t)
    THEN IF quad_pos = 0 THEN Returned(out) ELSE Failed
    ELSE IF t[i] = Pad
         THEN IF quad_pos >= 2 /\ quad_pos + pads + 1 >= 4
              THEN Returned(out)
              ELSE a2b_base64(t, i + 1, quad_pos, leftchar,
                              IF quad_pos >= 2 THEN pads + 1 ELSE pads, out)
    ELSE IF t[i] = Junk
         THEN a2b_base64(t, i + 1, quad_pos, leftchar, pads, out)
    ELSE LET n == leftchar * 8 + t[i]
         IN  CASE quad_pos = 0 -> a2b_base64(t, i + 1, 1, t[i], 0, out)
               [] quad_pos = 1 -> a2b_base64(t, i + 1, 2, n % 4, 0, Append(out, n \div 4))
               [] quad_pos = 2 -> a2b_base64(t, i + 1, 3, n % 2, 0, Append(out, n \div 2))
               [] quad_pos = 3 -> a2b_base64(t, i + 1, 0, 0, 0, Append(out, n))

\* base64.urlsafe_b64decode
b64decode(t) == a2b_base64(t, 1, 0, 0, 0, <<>>)

\* the part of a token the HMAC is made over
Signed(data, key, ts, iv) == <<Version, ts, iv>> \o cbc_encrypt(pkcs7(data), key, iv)

\* Cipher.encrypt: Fernet(key).encrypt(data), at time ts with the IV iv
Cipher_encrypt(data, key, ts, iv) ==
    LET s == Signed(data, key, ts, iv)
    IN  b64encode(s \o hmac(key, s))

\* mutant of Cipher_decrypt: the HMAC is not verified
Cipher_decrypt_NoVerify(text, key, issued) ==
    LET d == b64decode(text)
        n == Len(d.val)
    IN  IF ~d.ok \/ n < 3 + TagLen THEN Failed
        ELSE IF d.val[1] # Version THEN Failed
        ELSE unpad(cbc_decrypt(SubSeq(d.val, 4, n - TagLen), key, d.val[3]))

\* Cipher.decrypt: Fernet(key).decrypt(data).  issued: the signed parts
\* made with each key so far; HMAC-SHA256 is taken to accept no signed
\* part that was not made with the key
Cipher_decrypt(text, key, issued) ==
    LET d == b64decode(text)
        n == Len(d.val)
    IN  IF ~d.ok \/ n < 3 + TagLen THEN Failed
        ELSE IF d.val[1] # Version THEN Failed
        ELSE LET s == SubSeq(d.val, 1, n - TagLen)
                 tag == SubSeq(d.val, n - TagLen + 1, n)
             IN  IF tag # hmac(key, s) \/ <<key, s>> \notin issued THEN Failed
                 ELSE unpad(cbc_decrypt(SubSeq(s, 4, Len(s)), key, s[3]))

\* WebUtils.pickle_dumps on the wire
pickle_dumps_fernet(data, key, ts, iv) == Cipher_encrypt(dumps(data), key, ts, iv)

\* WebUtils.pickle_loads on the wire: None after any exception
pickle_loads_fernet(text, key, issued) ==
    LET p == Cipher_decrypt(text, key, issued)
    IN  IF p.ok THEN loads(p.val) ELSE Raised

\* the texts that differ from t in one place: a character replaced, a
\* character removed, or a byte from outside the alphabet put in
Replaced(t) == {[t EXCEPT ![i] = c] : i \in DOMAIN t, c \in Symbols} \ {t}
Removed(t) == {SubSeq(t, 1, i - 1) \o SubSeq(t, i + 1, Len(t)) : i \in DOMAIN t}
Inserted(t) == {SubSeq(t, 1, i) \o <<Junk>> \o SubSeq(t, i + 1, Len(t)) : i \in 0..Len(t)}
Altered(t) == Replaced(t) \cup Removed(t) \cup Inserted(t)

\* wire: one payload from pickle_dumps to pickle_loads (msg, key: what is
\* sealed and with which key; sent: the text pickle_dumps returned; text:
\* the text given to pickle_loads; issued: the signed parts made; okey,
\* out: the key pickle_loads is called with and what it returns)
WireIdle == [pc |-> "idle", msg |-> EmptyDict, key |-> 0, sent |-> <<>>,
             text |-> <<>>, issued |-> {}, okey |-> 0, out |-> Raised]

Init ==
    /\ wire = WireIdle
    /\ sup = SupIdle
    /\ ca = CaInit
    /\ now = 0
    /\ clients = <<>>
    /\ queue = <<>>
    /\ h = HIdle
    /\ sw = SwIdle
    /\ cl = ClIdle

\* ---------------------------------------------------------------- server
Remove(tbl, ip) == [a \in DOMAIN tbl \ {ip} |-> tbl[a]]

Respond(hh, status) == [hh EXCEPT !.pc = "respond", !.status = status]

\* mutant of SubmitBegin: a body that is no mapping from a caller with no
\* live session is answered 419
SubmitBegin_SessionFirst(src, ip, body, call) ==
    LET msg == pickle_loads(body, Key)
        hh == [HIdle EXCEPT !.route = "submit", !.src = src, !.call = call]
    IN  IF Stale(ip, now) THEN Respond(hh, EXPIRED)
        ELSE IF IsDict(msg)
        THEN [hh EXCEPT !.pc = "contains", !.ip = ip, !.msg = msg, !.stale = FALSE]
        ELSE Respond(hh, FAILED)

\* msg_submit_route up to the call of __credentials_not_expired
SubmitBegin(src, ip, body, call) ==
    LET msg == pickle_loads(body, Key)
        hh == [HIdle EXCEPT !.route = "submit", !.src = src, !.call = call]
    IN  IF IsDict(msg)
        THEN [hh EXCEPT !.pc = "contains", !.ip = ip, !.msg = msg,
                        !.stale = Stale(ip, now)]
        ELSE Respond(hh, FAILED)

\* __credentials_not_expired: client_ip in self.__clients
CredContains ==
    /\ h.pc = "contains"
    /\ h' = IF h.ip \in DOMAIN clients THEN [h EXCEPT !.pc = "getitem"]
                                       ELSE Respond(h, EXPIRED)
    /\ UNCHANGED <<wire, sup, ca, now, clients, queue, sw, cl>>

\* CredGetitem without the comparison: any entry counts as valid
CredGetitem_AnyEntry ==
    /\ h.pc = "getitem"
    /\ h' = IF h.ip \notin DOMAIN clients THEN Respond(h, FAILED)
            ELSE [h EXCEPT !.pc = "put"]
    /\ UNCHANGED <<wire, sup, ca, now, clients, queue, sw, cl>>

\* __credentials_not_expired: self.__clients[client_ip] > datetime.now();
\* a missing key raises KeyError, which only the route catches
CredGetitem ==
    /\ h.pc = "getitem"
    /\ h' = IF h.ip \notin DOMAIN clients THEN Respond(h, FAILED)
            ELSE IF clients[h.ip] > now THEN [h EXCEPT !.pc = "put"]
            ELSE [h EXCEPT !.pc = "delitem"]
    /\ UNCHANGED <<wire, sup, ca, now, clients, queue, sw, cl>>

\* __credentials_not_expired: del self.__clients[client_ip]
CredDelitem ==
    /\ h.pc = "delitem"
    /\ IF h.ip \notin DOMAIN clients
       THEN h' = Respond(h, FAILED) /\ UNCHANGED clients
       ELSE h' = Respond(h, EXPIRED) /\ clients' = Remove(clients, h.ip)
    /\ UNCHANGED <<wire, sup, ca, now, queue, sw, cl>>

\* the client's record once the sink has received the message of its
\* send_msg number k (0: a message of somebody else)
Received(k) ==
    [cl EXCEPT !.enq = IF k # 0 /\ k = cl.calls THEN @ + 1 ELSE @,
               !.top = IF k > @ THEN k ELSE @]

\* mutant of QueuePut: the new message goes in front of the waiting ones
QueuePut_InFront ==
    /\ h.pc = "put"
    /\ Len(queue) < QueueCap
    /\ queue' = <<h.msg.data>> \o queue
    /\ h' = Respond(h, OK)
    /\ cl' = Received(h.call)
    /\ UNCHANGED <<wire, sup, ca, now, clients, sw>>

\* msg_submit_route: self.__msg_queue.put(msg), which waits while the
\* queue is full
QueuePut ==
    /\ h.pc = "put"
    /\ Len(queue) < QueueCap
    /\ queue' = Append(queue, h.msg.data)
    /\ h' = Respond(h, OK)
    /\ cl' = Received(h.call)
    /\ UNCHANGED <<wire, sup, ca, now, clients, sw>>

\* the application takes a message from the queue
QueueGet ==
    /\ queue # <<>>
    /\ queue' = Tail(queue)
    /\ UNCHANGED <<wire, sup, ca, now, clients, h, sw, cl>>

\* mutant of validate_credentials: a failed verification ends the session
validate_credentials_FailureRevokes(tbl, msg, ip, t) ==
    IF authenticate_user(msg)
    THEN [ok |-> TRUE, tbl |-> (ip :> (t + SessionTTL)) @@ tbl]
    ELSE [ok |-> FALSE, tbl |-> Remove(tbl, ip)]

\* __validate_credentials: the result and the session table it leaves
validate_credentials(tbl, msg, ip, t) ==
    IF authenticate_user(msg)
    THEN [ok |-> TRUE, tbl |-> (ip :> (t + SessionTTL)) @@ tbl]
    ELSE [ok |-> FALSE, tbl |-> tbl]

\* client_auth_route, one step (it makes one access to the session table):
\* the handler about to respond and the session table it leaves.  dbOk is
\* false when the credential store raises.
client_auth_route(src, ip, body, dbOk) ==
    LET msg == pickle_loads(body, Key)
        hh == [HIdle EXCEPT !.route = "auth", !.src = src, !.ip = ip, !.msg = msg]
        v == validate_credentials(clients, msg, ip, now)
    IN  IF ~IsDict(msg) THEN [h |-> Respond(hh, UNAUTHORIZED), tbl |-> clients]
        ELSE IF ~dbOk THEN [h |-> Respond(hh, FAILED), tbl |-> clients]
        ELSE [h |-> Respond(hh, IF v.ok THEN OK ELSE UNAUTHORIZED), tbl |-> v.tbl]

\* a peer other than the client posts to /message/submit
EnvSubmit ==
    /\ h.pc = "idle"
    /\ \E sock \in Addrs, fwd \in Headers, body \in EnvSubmitBodies :
          h' = From(SubmitBegin("env", get_client_ip(fwd, sock), body, 0), fwd, sock)
    /\ UNCHANGED <<wire, sup, ca, now, clients, queue, sw, cl>>

\* a peer other than the client posts to /client/auth
EnvAuth ==
    /\ h.pc = "idle"
    /\ \E sock \in Addrs, fwd \in Headers, body \in EnvAuthBodies, dbOk \in BOOLEAN :
          LET r == client_auth_route("env", get_client_ip(fwd, sock), body, dbOk)
          IN  h' = From(r.h, fwd, sock) /\ clients' = r.tbl
    /\ UNCHANGED <<wire, sup, ca, now, queue, sw, cl>>

\* mutant of is_running_route: peers without a session are turned away
is_running_route_NeedsSession(ip) ==
    Respond([HIdle EXCEPT !.route = "live", !.src = "env", !.ip = ip],
            IF ip \in DOMAIN clients THEN OK ELSE UNAUTHORIZED)

\* is_running_route: return Response('Web-Server is running', 200)
is_running_route(ip) ==
    Respond([HIdle EXCEPT !.route = "live", !.src = "env", !.ip = ip], OK)

\* a peer gets /is/running
EnvLive ==
    /\ h.pc = "idle"
    /\ \E sock \in Addrs, fwd \in Headers :
          h' = From(is_running_route(get_client_ip(fwd, sock)), fwd, sock)
    /\ UNCHANGED <<wire, sup, ca, now, clients, queue, sw, cl>>

\* ----------------------------------------------------------------- sweep
\* __clear_expired_clients: now = datetime.now(); list(self.__clients.keys())
SweepStart ==
    /\ sw.pc = "idle"
    /\ clients # <<>>
    /\ sw' = [pc |-> "loop", keys |-> DOMAIN clients, now |-> now, ip |-> "none"]
    /\ UNCHANGED <<wire, sup, ca, now, clients, queue, h, cl>>

SweepNext(keys) == IF keys = {} THEN SwIdle ELSE [sw EXCEPT !.pc = "loop", !.keys = keys, !.ip = "none"]

\* mutant of SweepGet: an entry that expires at the sweep's time is kept
SweepGet_StrictlyAfter ==
    /\ sw.pc = "loop"
    /\ \E ip \in sw.keys :
          sw' = IF ip \notin DOMAIN clients THEN SwIdle
                ELSE IF sw.now > clients[ip] THEN [sw EXCEPT !.pc = "del", !.ip = ip]
                ELSE SweepNext(sw.keys \ {ip})
    /\ UNCHANGED <<wire, sup, ca, now, clients, queue, h, cl>>

\* __clear_expired_clients: now >= self.__clients.get(ip); get returns None
\* for a key that is gone, the comparison raises, the sweep ends
SweepGet ==
    /\ sw.pc = "loop"
    /\ \E ip \in sw.keys :
          sw' = IF ip \notin DOMAIN clients THEN SwIdle
                ELSE IF sw.now >= clients[ip] THEN [sw EXCEPT !.pc = "del", !.ip = ip]
                ELSE SweepNext(sw.keys \ {ip})
    /\ UNCHANGED <<wire, sup, ca, now, clients, queue, h, cl>>

\* __clear_expired_clients: del self.__clients[ip]; a key that is gone
\* raises KeyError, the sweep ends
SweepDel ==
    /\ sw.pc = "del"
    /\ IF sw.ip \notin DOMAIN clients
       THEN sw' = SwIdle /\ UNCHANGED clients
       ELSE sw' = SweepNext(sw.keys \ {sw.ip}) /\ clients' = Remove(clients, sw.ip)
    /\ UNCHANGED <<wire, sup, ca, now, queue, h, cl>>

\* ---------------------------------------------------------------- client
\* what __send_post_request returns when the request does not reach a
\* handler: 405 on requests.exceptions.ConnectionError, 200 on
\* KeyboardInterrupt, 500 on any other exception
PostOutcomes == {CONN_ERROR, OK, FAILED}
\* what requests.get ends in: status 200, another status, ConnectionError
GetOutcomes == {"ok", "status", "refused"}

Return(c, r) == [c EXCEPT !.pc = "idle", !.result = r]

\* NextAttempt giving up one attempt early (while attempt < 3)
NextAttempt_TwoAttempts(c) ==
    IF c.attempt + 1 < AttemptLimit - 1
    THEN [c EXCEPT !.pc = "post", !.attempt = @ + 1]
    ELSE Return([c EXCEPT !.attempt = @ + 1], "false")

\* __post_retry_request: attempt += 1; while attempt < 4 ... return False
NextAttempt(c) ==
    IF c.attempt + 1 < AttemptLimit
    THEN [c EXCEPT !.pc = "post", !.attempt = @ + 1]
    ELSE Return([c EXCEPT !.attempt = @ + 1], "false")

\* __post_retry_request: the branches on the status of one attempt
post_retry_request(c, rsp) ==
    LET c1 == [c EXCEPT !.rsps = Append(@, rsp)]
    IN  IF rsp = OK THEN Return(c1, "true")
        ELSE IF rsp \in {UNAUTHORIZED, EXPIRED} THEN [c1 EXCEPT !.pc = "a_live"]
        ELSE NextAttempt(c1)

\* authenticate_returns where a successful re-authentication ends send_msg
\* with success instead of submitting again
authenticate_returns_NoResubmit(c, r) ==
    IF c.op = "auth" THEN Return(c, r)
    ELSE IF r = "true" THEN Return([c EXCEPT !.auths = Append(@, r)], "true")
    ELSE NextAttempt([c EXCEPT !.auths = Append(@, r)])

\* authenticate_returns where the re-authentication does not use up the
\* attempt
authenticate_returns_FreeRetry(c, r) ==
    IF c.op = "auth" THEN Return(c, r)
    ELSE [c EXCEPT !.auths = Append(@, r), !.pc = "post"]

\* _authenticate has returned r, to the caller or to the retry loop
authenticate_returns(c, r) ==
    IF c.op = "auth" THEN Return(c, r)
    ELSE NextAttempt([c EXCEPT !.auths = Append(@, r)])

\* _authenticate has raised: nothing on the way up catches it
authenticate_raises(c) ==
    IF c.op = "auth" THEN Return(c, "raised")
    ELSE Return([c EXCEPT !.auths = Append(@, "raised")], "raised")

Call(op) == [ClIdle EXCEPT !.op = op, !.calls = cl.calls + 1, !.creds = cl.creds,
                          !.until = cl.until, !.top = cl.top]

\* send_msg
SendMsg ==
    /\ cl.pc = "idle"
    /\ cl.calls < MaxCalls
    /\ \E isDict \in BOOLEAN :
          cl' = IF isDict THEN [Call("send") EXCEPT !.pc = "post", !.attempt = 1]
                ELSE Return(Call("send"), "false")
    /\ UNCHANGED <<wire, sup, ca, now, clients, queue, h, sw>>

\* _authenticate called by the application
Authenticate ==
    /\ cl.pc = "idle"
    /\ cl.calls < MaxCalls
    /\ cl' = [Call("auth") EXCEPT !.pc = "a_live"]
    /\ UNCHANGED <<wire, sup, ca, now, clients, queue, h, sw>>

\* _is_running_check: True on 200, False on another status; requests.get
\* is not guarded, an unreachable server raises
is_running_check(outcome) ==
    IF outcome = "ok" THEN "true" ELSE IF outcome = "status" THEN "false" ELSE "raised"

\* _is_running_check called by the application
CheckLiveness ==
    /\ cl.pc = "idle"
    /\ cl.calls < MaxCalls
    /\ \E o \in GetOutcomes : cl' = Return(Call("live"), is_running_check(o))
    /\ UNCHANGED <<wire, sup, ca, now, clients, queue, h, sw>>

\* _authenticate: if self._is_running_check()
AuthLive ==
    /\ cl.pc = "a_live"
    /\ \E o \in GetOutcomes :
          LET r == is_running_check(o)
          IN  cl' = IF r = "true" THEN [cl EXCEPT !.pc = "a_post"]
                    ELSE IF r = "false" THEN authenticate_returns(cl, "false")
                    ELSE authenticate_raises(cl)
    /\ UNCHANGED <<wire, sup, ca, now, clients, queue, h, sw>>

AuthResult(rsp) == IF rsp = OK THEN "true" ELSE "false"

\* _authenticate: self.__send_post_request(url, payload) == 200
AuthPost ==
    /\ cl.pc = "a_post"
    /\ \/ \E r \in PostOutcomes :
             /\ cl' = authenticate_returns(cl, AuthResult(r))
             /\ UNCHANGED <<h, clients>>
       \/ /\ h.pc = "idle"
          /\ \E dbOk \in BOOLEAN :
                LET r == client_auth_route("client", ClientAddr,
                                           pickle_dumps(Dict(cl.creds), Key), dbOk)
                IN  /\ h' = r.h /\ clients' = r.tbl
                    /\ cl' = [cl EXCEPT !.pc = "a_wait",
                                        !.until = IF r.h.status = OK
                                                  THEN now + SessionTTL ELSE @]
    /\ UNCHANGED <<wire, sup, ca, now, queue, sw>>

\* __post_retry_request: rsp = self.__send_post_request(url, payload)
SubmitPost ==
    /\ cl.pc = "post"
    /\ \/ \E r \in PostOutcomes :
             /\ cl' = post_retry_request(cl, r)
             /\ UNCHANGED h
       \/ /\ h.pc = "idle"
          /\ h' = SubmitBegin("client", ClientAddr,
                              pickle_dumps(Dict(Msg(cl.calls)), Key), cl.calls)
          /\ cl' = [cl EXCEPT !.pc = "wait"]
    /\ UNCHANGED <<wire, sup, ca, now, clients, queue, sw>>

\* __send_post_request: except KeyboardInterrupt: return 200, while the
\* request is with the server
Interrupt ==
    /\ cl.pc \in {"wait", "a_wait"}
    /\ h' = IF h.src = "client" THEN [h EXCEPT !.src = "env"] ELSE h
    /\ cl' = IF cl.pc = "wait" THEN post_retry_request(cl, OK)
                               ELSE authenticate_returns(cl, "true")
    /\ UNCHANGED <<wire, sup, ca, now, clients, queue, sw>>

\* the handler returns its Response; the client gets the status, or a
\* ConnectionError when the connection broke first
Reply ==
    /\ h.pc = "respond"
    /\ h' = HIdle
    /\ IF h.src = "client"
       THEN \E r \in {h.status, CONN_ERROR} :
               cl' = IF h.route = "submit" THEN post_retry_request(cl, r)
                                           ELSE authenticate_returns(cl, AuthResult(r))
       ELSE UNCHANGED cl
    /\ UNCHANGED <<wire, sup, ca, now, clients, queue, sw>>

\* ------------------------------------------------------------------ time
Tick ==
    /\ now < MaxTime
    /\ now' = now + 1
    /\ UNCHANGED <<wire, sup, ca, clients, queue, h, sw, cl>>

\* the steps of the listener worker, the control thread and the clock
ServerNext ==
    \/ CredContains \/ CredGetitem \/ CredDelitem \/ QueuePut \/ QueueGet \/ Reply
    \/ SweepStart \/ SweepGet \/ SweepDel
    \/ Tick

\* the server and peers that send it any request
Next == EnvSubmit \/ EnvAuth \/ EnvLive \/ ServerNext

Spec == Init /\ [][Next]_vars

\* the client is built with the default admin's credentials or with others
ClientInit ==
    /\ wire = WireIdle
    /\ sup = SupIdle
    /\ ca = CaInit
    /\ now = 0
    /\ clients = <<>>
    /\ queue = <<>>
    /\ h = HIdle
    /\ sw = SwIdle
    /\ cl \in {[ClIdle EXCEPT !.creds = c] : c \in {"good", "bad"}}

\* the server and one client
ClientNext ==
    \/ SendMsg \/ Authenticate \/ CheckLiveness \/ AuthLive \/ AuthPost \/ SubmitPost
    \/ Interrupt
    \/ ServerNext

ClientSpec == ClientInit /\ [][ClientNext]_vars

\* the session tables that authenticate calls up to time t leave behind
Tables(t) ==
    LET all == UNION {[S -> SessionTTL..(t + SessionTTL)] : S \in SUBSET Addrs}
    IN  all

\* a sweep at any time over any session table, nothing else running
SweepInit ==
    /\ wire = WireIdle
    /\ sup = SupIdle
    /\ ca = CaInit
    /\ now \in 0..MaxTime
    /\ clients \in Tables(now)
    /\ queue = <<>>
    /\ h = HIdle
    /\ sw = SwIdle
    /\ cl = ClIdle

SweepOnlyNext == SweepStart \/ SweepGet \/ SweepDel \/ Tick

SweepSpec == SweepInit /\ [][SweepOnlyNext]_vars

\* -------------------------------------------------------------- run_test
\* run_test: test_client.send_msg({'test': i}) for i in 1..test_qty
RunTestSend ==
    /\ cl.pc = "idle"
    /\ cl.calls < MaxSends
    /\ cl' = [Call("send") EXCEPT !.pc = "post", !.attempt = 1]
    /\ UNCHANGED <<wire, sup, ca, now, clients, queue, h, sw>>

\* the client gets the status the handler has returned
Delivered ==
    cl' = IF h.route = "submit" THEN post_retry_request(cl, h.status)
          ELSE authenticate_returns(cl, AuthResult(h.status))

\* the test server, its consumer and the test client on one host: every
\* request reaches its handler, every response the client, the credential
\* store answers, nobody presses Ctrl-C
RunTestNext ==
    \/ RunTestSend
    \/ (SubmitPost /\ cl'.pc = "wait")
    \/ (AuthLive /\ cl'.pc = "a_post")
    \/ (AuthPost /\ cl'.pc = "a_wait" /\ h'.status # FAILED)
    \/ (Reply /\ Delivered)
    \/ CredContains \/ CredGetitem \/ CredDelitem \/ QueuePut \/ QueueGet
    \/ SweepStart \/ SweepGet \/ SweepDel \/ Tick

\* the client of run_test has the default admin's credentials
RunTestInit == ClientInit /\ cl.creds = "good"

RunTestSpec == RunTestInit /\ [][RunTestNext]_vars

\* -------------------------------------------------------- envelope runs
\* a caller seals wire.msg with wire.key
Seal ==
    /\ wire.pc = "idle"
    /\ \E ts \in 0..MaxStamp, iv \in 0..MaxStamp :
          LET t == pickle_dumps_fernet(wire.msg, wire.key, ts, iv)
          IN  wire' = [wire EXCEPT !.pc = "sealed", !.sent = t, !.text = t,
                                   !.issued = {<<wire.key, Signed(dumps(wire.msg), wire.key, ts, iv)>>}]
    /\ UNCHANGED <<sup, ca, now, clients, queue, h, sw, cl>>

\* the payload is altered in one place on its way
Alter ==
    /\ wire.pc = "sealed"
    /\ \E t \in Altered(wire.text) : wire' = [wire EXCEPT !.pc = "altered", !.text = t]
    /\ UNCHANGED <<sup, ca, now, clients, queue, h, sw, cl>>

\* the receiver opens what arrived, with its key
Open ==
    /\ wire.pc \in {"sealed", "altered"}
    /\ \E k \in FernetKeys :
          wire' = [wire EXCEPT !.pc = "opened", !.okey = k,
                               !.out = pickle_loads_fernet(wire.text, k, wire.issued)]
    /\ UNCHANGED <<sup, ca, now, clients, queue, h, sw, cl>>

\* every message, sealed with every key
EnvelopeInit ==
    /\ sup = SupIdle
    /\ ca = CaInit
    /\ now = 0
    /\ clients = <<>>
    /\ queue = <<>>
    /\ h = HIdle
    /\ sw = SwIdle
    /\ cl = ClIdle
    /\ wire \in {[WireIdle EXCEPT !.msg = m, !.key = k] : m \in Messages, k \in FernetKeys}

EnvelopeNext == Seal \/ Alter \/ Open

EnvelopeSpec == EnvelopeInit /\ [][EnvelopeNext]_vars

\* ------------------------------------------------------------ supervisor
\* the control thread returns r
ThreadExit(s, r) == [s EXCEPT !.thread = "dead", !.tpc = "none", !.tres = r, !.cnt = 0]

\* self.__process = Process(...): the worker referred to until now, if
\* it is alive, is alive still and nothing refers to it
NewProcess(s) ==
    [s EXCEPT !.process = "alive",
              !.orphans = IF s.process = "alive" THEN @ + 1 ELSE @]

\* mutant of start_web_server_process: no look at the worker it refers to
start_web_server_process_AlwaysSpawn(s, ok) ==
    IF ok THEN [NewProcess(s) EXCEPT !.tpc = "loop", !.cnt = 0]
    ELSE ThreadExit(s, "false")

\* the first thing the control thread does: a worker that is alive is
\* kept, else one is spawned; ok: Process.start() did not raise
start_web_server_process(s, ok) ==
    IF s.process = "alive" THEN [s EXCEPT !.tpc = "loop", !.cnt = 0]
    ELSE IF ok THEN [NewProcess(s) EXCEPT !.tpc = "loop", !.cnt = 0]
    ELSE ThreadExit(s, "false")

\* the sweep with nothing running between its steps
clear_expired_clients(tbl, t) ==
    LET keep == {ip \in DOMAIN tbl : ~(t >= tbl[ip])}
    IN  [ip \in keep |-> tbl[ip]]

\* mutant of web_cleaner_loop: the worker's death goes unnoticed
web_cleaner_loop_NoAliveCheck(s) ==
    IF s.stop THEN [s EXCEPT !.tpc = "term"]
    ELSE [s EXCEPT !.cnt = (s.cnt + 1) % SweepEvery]

\* one turn of the control thread's loop
web_cleaner_loop(s) ==
    IF s.stop THEN [s EXCEPT !.tpc = "term"]
    ELSE IF s.cnt + 1 = SweepEvery
         THEN IF s.process # "alive" THEN ThreadExit(s, "false")
              ELSE [s EXCEPT !.cnt = 0]
         ELSE [s EXCEPT !.cnt = @ + 1]

\* dies: the worker ended within the 3 seconds of the join
terminate_web_process(s, dies) ==
    IF s.process = "alive"
    THEN IF dies THEN ThreadExit([s EXCEPT !.process = "none"], "true")
         ELSE ThreadExit(s, "false")
    ELSE ThreadExit(s, "true")

ThreadSpawn ==
    /\ sup.thread = "alive" /\ sup.tpc = "spawn"
    /\ \E ok \in BOOLEAN : sup' = start_web_server_process(sup, ok)
    /\ UNCHANGED <<wire, ca, now, clients, queue, h, sw, cl>>

ThreadLoop ==
    /\ sup.thread = "alive" /\ sup.tpc = "loop"
    /\ sup' = web_cleaner_loop(sup)
    /\ clients' = IF ~sup.stop /\ sup.cnt + 1 = SweepEvery
                  THEN clear_expired_clients(clients, now) ELSE clients
    /\ UNCHANGED <<wire, ca, now, queue, h, sw, cl>>

ThreadTerminate ==
    /\ sup.thread = "alive" /\ sup.tpc = "term"
    /\ \E dies \in BOOLEAN : sup' = terminate_web_process(sup, dies)
    /\ UNCHANGED <<wire, ca, now, clients, queue, h, sw, cl>>

\* the worker ends by itself: a crash, a port in use, a late SIGTERM
WorkerExit ==
    /\ sup.process = "alive"
    /\ sup' = [sup EXCEPT !.process = "dead"]
    /\ UNCHANGED <<wire, ca, now, clients, queue, h, sw, cl>>

\* the application calls op
Enter(s, op) ==
    [s EXCEPT !.cop = op, !.cres = "none", !.prev = [op |-> s.cop, res |-> s.cres],
              !.calls = 1 - @]

\* the call returns r
Leave(s, r) == [s EXCEPT !.cpc = "idle", !.cres = r]

\* self.__thread = x: the thread referred to until now, if it is alive,
\* runs on and nothing refers to it
SetThread(s, x) ==
    [s EXCEPT !.thread = x, !.lost = IF s.thread = "alive" THEN @ + 1 ELSE @]

\* ok: Thread.start() did not raise
create_web_cleaner_thread(s, ok) ==
    IF ok THEN Leave([SetThread(s, "alive") EXCEPT !.tpc = "spawn", !.tres = "none"], "true")
    ELSE Leave(SetThread(s, "dead"), "false")

\* start() after it has cleared the stop event
start(s, ok) ==
    IF s.thread = "alive" THEN Leave(s, "true")
    ELSE create_web_cleaner_thread(SetThread(s, "none"), ok)

\* mutant of stop_begin: a stop() with no control thread is a failure
stop_begin_NotRunningFails(s) ==
    IF s.thread = "none" THEN Leave(s, "false")
    ELSE IF s.thread = "alive" THEN [s EXCEPT !.stop = TRUE, !.cpc = "join"]
    ELSE Leave(SetThread(s, "none"), "true")

\* stop() up to the join
stop_begin(s) ==
    IF s.thread = "none" THEN Leave(s, "true")
    ELSE IF s.thread = "alive" THEN [s EXCEPT !.stop = TRUE, !.cpc = "join"]
    ELSE Leave(SetThread(s, "none"), "true")

\* stop() after join(5): the thread has ended, or the 5 seconds are over
stop_join(s) ==
    IF s.thread = "alive" THEN Leave(s, "false")
    ELSE Leave(SetThread(s, "none"), "true")

StartClear ==
    /\ sup.cpc = "idle"
    /\ sup' = [Enter(sup, "start") EXCEPT !.stop = FALSE, !.cpc = "start"]
    /\ UNCHANGED <<wire, ca, now, clients, queue, h, sw, cl>>

StartCheck ==
    /\ sup.cpc = "start"
    /\ \E ok \in BOOLEAN : sup' = start(sup, ok)
    /\ UNCHANGED <<wire, ca, now, clients, queue, h, sw, cl>>

StopBegin ==
    /\ sup.cpc = "idle"
    /\ sup' = stop_begin(Enter(sup, "stop"))
    /\ UNCHANGED <<wire, ca, now, clients, queue, h, sw, cl>>

StopJoin ==
    /\ sup.cpc = "join"
    /\ sup' = stop_join(sup)
    /\ UNCHANGED <<wire, ca, now, clients, queue, h, sw, cl>>

ThreadNext == ThreadSpawn \/ ThreadLoop \/ ThreadTerminate

\* one application thread that calls start() and stop() one after the
\* other, the control thread and the worker
SupNext == StartClear \/ StartCheck \/ StopBegin \/ StopJoin \/ ThreadNext \/ WorkerExit

SupSpec == Init /\ [][SupNext]_vars

\* the control thread is a running thread: it is not held up for ever
SupFairSpec == SupSpec /\ WF_vars(ThreadNext)

\* start() in a second application thread: self.__thread_stop.clear()
OtherStartClear ==
    /\ sup.opc = "idle"
    /\ sup' = [sup EXCEPT !.stop = FALSE, !.opc = "start"]
    /\ UNCHANGED <<wire, ca, now, clients, queue, h, sw, cl>>

\* start() in the second application thread, after the clear
OtherStartCheck ==
    /\ sup.opc = "start"
    /\ \E ok \in BOOLEAN :
          sup' = [start(sup, ok) EXCEPT !.cpc = sup.cpc, !.cres = sup.cres, !.opc = "idle"]
    /\ UNCHANGED <<wire, ca, now, clients, queue, h, sw, cl>>

\* two application threads: one calls start() and stop(), the other start()
SupRaceNext == SupNext \/ OtherStartClear \/ OtherStartCheck

SupRaceSpec == Init /\ [][SupRaceNext]_vars /\ WF_vars(ThreadNext)

\* -------------------------------------------------- certificate authority
\* process i returns r from its call
CaReturn(c, i, r) == [c EXCEPT !.p[i].pc = "idle", !.p[i].res = r]

\* process i is in a call that issues a root or a leaf certificate
CaCall(c, i, kind) ==
    [c EXCEPT !.calls = @ + 1,
              !.p[i] = [pc |-> "read", kind |-> kind, serial |-> 0, res |-> "none",
                        force |-> FALSE,
                        s0 |-> c.serial, r0 |-> <<c.rootCert, c.rootKey>>]]

\* mutant of create: the root certificate and key are not looked at
create_NoLoadCheck(c, i, ok) ==
    IF ok THEN CaCall(c, i, "leaf") ELSE CaReturn(CaCall(c, i, "leaf"), i, "false")

\* create(): the root certificate and key are loaded, then the key, the
\* subject and the alternative names are made; ok: none of these raised
create(c, i, ok) ==
    IF c.rootCert # 0 /\ c.rootKey # 0 /\ ok THEN CaCall(c, i, "leaf")
    ELSE CaReturn(CaCall(c, i, "leaf"), i, "false")

\* process i is in _initialize_cert_authority(force)
InitCall(c, i, force) == [CaCall(c, i, "root") EXCEPT !.p[i].force = force]

\* mutant of initialize_cert_authority: a new root whatever is there
initialize_cert_authority_AlwaysRegenerate(c, i, force, ok) ==
    IF ok THEN InitCall(c, i, force) ELSE CaReturn(InitCall(c, i, force), i, "false")

\* _initialize_cert_authority(force) up to __define_ca_cert; ok: the key
\* and the subject were made
initialize_cert_authority(c, i, force, ok) ==
    IF force \/ c.rootCert = 0
    THEN IF ok THEN InitCall(c, i, force) ELSE CaReturn(InitCall(c, i, force), i, "false")
    ELSE CaReturn(InitCall(c, i, force), i, "true")

\* mutant of next_serial_read: the counter is stepped by two
next_serial_read_SkipOne(c, i, ok) ==
    IF ok THEN [c EXCEPT !.p[i].serial = c.serial + 2, !.p[i].pc = "write"]
    ELSE CaReturn(c, i, "false")

\* __next_serial: serial = int(file.read().strip()) + 1; when the open or
\* the read raises it returns 0 and __define_cert returns False
next_serial_read(c, i, ok) ==
    IF ok THEN [c EXCEPT !.p[i].serial = c.serial + 1, !.p[i].pc = "write"]
    ELSE CaReturn(c, i, "false")

\* __next_serial: file.seek(0); file.write(str(serial)); file.truncate()
next_serial_write(c, i) == [c EXCEPT !.serial = c.p[i].serial, !.p[i].pc = "sign"]

\* the serial number process i has taken goes to no certificate
Wasted(c, i) == [CaReturn(c, i, "false") EXCEPT !.base = c.serial, !.from = Len(c.issued)]

\* __define_cert after __next_serial: the certificate is built and signed
define_cert(c, i, ok) ==
    IF ok THEN [c EXCEPT !.p[i].pc = "save"] ELSE Wasted(c, i)

\* __save_cert_and_key: the certificate file is written, then the key file
save_cert_and_key(c, i, certOk, keyOk) ==
    LET root == c.p[i].kind = "root"
        k    == c.roots + 1
        n    == c.p[i].serial
        c1   == IF ~certOk THEN c
                ELSE IF root THEN [c EXCEPT !.rootCert = k, !.roots = k]
                ELSE [c EXCEPT !.leafCert = n]
        c2   == IF ~(certOk /\ keyOk) THEN c1
                ELSE IF root THEN [c1 EXCEPT !.rootKey = k]
                ELSE [c1 EXCEPT !.leafKey = n]
    IN  IF certOk /\ keyOk
        THEN CaReturn([c2 EXCEPT !.issued = Append(@, c.p[i].serial)], i, "true")
        ELSE Wasted(c2, i)

Create(i) ==
    /\ ca.p[i].pc = "idle" /\ ca.calls < MaxIssuances
    /\ \E ok \in BOOLEAN : ca' = create(ca, i, ok)
    /\ UNCHANGED <<wire, sup, now, clients, queue, h, sw, cl>>

InitializeCertAuthority(i) ==
    /\ ca.p[i].pc = "idle" /\ ca.calls < MaxIssuances
    /\ \E force, ok \in BOOLEAN : ca' = initialize_cert_authority(ca, i, force, ok)
    /\ UNCHANGED <<wire, sup, now, clients, queue, h, sw, cl>>

NextSerialRead(i) ==
    /\ ca.p[i].pc = "read"
    /\ \E ok \in BOOLEAN : ca' = next_serial_read(ca, i, ok)
    /\ UNCHANGED <<wire, sup, now, clients, queue, h, sw, cl>>

NextSerialWrite(i) ==
    /\ ca.p[i].pc = "write"
    /\ ca' = next_serial_write(ca, i)
    /\ UNCHANGED <<wire, sup, now, clients, queue, h, sw, cl>>

DefineCert(i) ==
    /\ ca.p[i].pc = "sign"
    /\ \E ok \in BOOLEAN : ca' = define_cert(ca, i, ok)
    /\ UNCHANGED <<wire, sup, now, clients, queue, h, sw, cl>>

SaveCertAndKey(i) ==
    /\ ca.p[i].pc = "save"
    /\ \E certOk, keyOk \in BOOLEAN : ca' = save_cert_and_key(ca, i, certOk, keyOk)
    /\ UNCHANGED <<wire, sup, now, clients, queue, h, sw, cl>>

CaStep(i) ==
    \/ Create(i) \/ InitializeCertAuthority(i)
    \/ NextSerialRead(i) \/ NextSerialWrite(i) \/ DefineCert(i) \/ SaveCertAndKey(i)

\* one process issues certificates
CaNext == CaStep(1)

CaSpec == Init /\ [][CaNext]_vars

\* two processes issue certificates from the same web_env directory
CaRaceNext == \E i \in {1, 2} : CaStep(i)

CaRaceSpec == Init /\ [][CaRaceNext]_vars

\* ================================================================ claims
AuthPcs == {"a_live", "a_post", "a_wait"}

\* the handler is about to return the Response of a submit whose body
\* unsealed to a mapping
SubmitResponds == h.pc = "respond" /\ h.route = "submit" /\ IsDict(h.msg)

\* C1: a message reaches the sink only from the handler whose check has
\* just found an entry for the resolved address with expiresAt strictly
\* later than now; and an entry is never valid for more than one hour from
\* now, so the authenticate that installed it was less than 1 hour ago.
C1_DeliveryOnlyIfLive ==
    /\ [](\A ip \in DOMAIN clients : clients[ip] <= now + SessionTTL)
    /\ [][/\ Len(queue') > Len(queue) => h.pc = "put" /\ h'.status = OK
          /\ h'.pc = "put" /\ h.pc # "put" =>
                h.pc = "getitem" /\ h.ip \in DOMAIN clients /\ clients[h.ip] > now]_vars

\* C1 witness: a submit was authorized and its message is in the queue
C1_Witness == SubmitResponds /\ h.status = OK /\ queue # <<>>

\* the step in which client_auth_route accepts the credentials
AuthSucceeds == h.pc = "idle" /\ h'.pc = "respond" /\ h'.route = "auth" /\ h'.status = OK

\* C2: a successful authenticate from A at time T sets A's entry to T + 1
\* hour; from then on the entry stays (with that expiry or a later one)
\* while now is before its expiry, and the submit check accepts A exactly
\* when now is strictly before the expiry.
C2_SessionLifecycle ==
    [][/\ AuthSucceeds =>
             h'.ip \in DOMAIN clients' /\ clients'[h'.ip] = now + SessionTTL
       /\ \A ip \in DOMAIN clients :
             clients[ip] > now => ip \in DOMAIN clients' /\ clients'[ip] >= clients[ip]
       /\ h' # h /\ h.pc = "contains" /\ ~Stale(h.ip, now) => h'.pc = "getitem"
       /\ h' # h /\ h.pc = "getitem" /\ h.ip \in DOMAIN clients =>
             (h'.pc = "put" <=> clients[h.ip] > now)]_vars

\* C3: a submit with a mapping payload from an address whose entry was
\* absent or expired when it arrived is answered 419, delivers nothing and
\* leaves no entry for the address.
C3_StaleSubmitExpired ==
    SubmitResponds /\ h.stale =>
        h.status = EXPIRED /\ h.status # OK /\ h.ip \notin DOMAIN clients

\* C4: authenticate answers 500 when the body does not unseal to a mapping,
\* and 401 only when a mapping fails verification.
C4_AuthGenericFailure ==
    h.pc = "respond" /\ h.route = "auth" =>
        /\ ~IsDict(h.msg) => h.status = FAILED
        /\ h.status = UNAUTHORIZED => IsDict(h.msg) /\ ~authenticate_user(h.msg)

\* send_msg has returned or raised
SendDone == cl.pc = "idle" /\ cl.op = "send"

Last(q) == q[Len(q)]

\* C5: when send_msg returns true the sink has received its message
\* exactly once.
C5_ExactlyOnce ==
    /\ cl.enq <= 1
    /\ SendDone /\ cl.result = "true" => cl.enq = 1

\* C6: send_msg makes at most 3 submit attempts and at most 3 authenticate
\* calls, returns true exactly at the first attempt that gets 200, and
\* returns false when 3 attempts have ended without a 200.
C6_ThreeAttempts ==
    /\ Len(cl.rsps) <= 3 /\ Len(cl.auths) <= 3
    /\ cl.pc \in {"post", "wait"} => Len(cl.rsps) < 3
    /\ cl.op = "send" /\ cl.pc \in AuthPcs => Len(cl.auths) < 3
    /\ \A i \in 1..(Len(cl.rsps) - 1) : cl.rsps[i] # OK
    /\ cl.rsps # <<>> /\ Last(cl.rsps) = OK => SendDone /\ cl.result = "true"
    /\ SendDone /\ cl.result = "true" => cl.rsps # <<>> /\ Last(cl.rsps) = OK
    /\ SendDone /\ Len(cl.rsps) = 3 /\ Last(cl.rsps) # OK => cl.result = "false"

\* C7: after two attempts that ended in a connection failure send_msg
\* makes a third; it returns true when that one gets 200 and false when it
\* fails the same way.
C7_ConnectionRetry ==
    /\ cl.rsps = <<CONN_ERROR, CONN_ERROR>> =>
          cl.pc \in {"post", "wait"} /\ cl.attempt = 3
    /\ cl.rsps = <<CONN_ERROR, CONN_ERROR, OK>> => SendDone /\ cl.result = "true"
    /\ cl.rsps = <<CONN_ERROR, CONN_ERROR, CONN_ERROR>> => SendDone /\ cl.result = "false"

\* C7 witness: the third attempt was served by the handler and got 200
C7_Witness ==
    cl.rsps = <<CONN_ERROR, CONN_ERROR, OK>> /\ cl.result = "true" /\ cl.enq = 1

\* C8: when the first submit gets 419 and the authenticate that follows
\* succeeds, send_msg submits again; when that submit gets 200 it returns
\* true after exactly one authenticate and exactly two submit attempts.
C8_ReauthOnExpiry ==
    /\ cl.rsps = <<EXPIRED>> /\ cl.auths = <<"true">> =>
          cl.pc \in {"post", "wait"} /\ cl.attempt = 2
    /\ Len(cl.rsps) >= 2 /\ cl.rsps[1] = EXPIRED /\ cl.rsps[2] = OK
         /\ cl.auths # <<>> /\ cl.auths[1] = "true" =>
          SendDone /\ cl.result = "true" /\ Len(cl.auths) = 1 /\ Len(cl.rsps) = 2

\* C8 witness: the server answered 419, accepted the credentials and then
\* the message
C8_Witness ==
    /\ cl.rsps = <<EXPIRED, OK>> /\ cl.auths = <<"true">> /\ cl.result = "true"
    /\ cl.enq = 1 /\ ClientAddr \in DOMAIN clients

\* _authenticate returns to the retry loop
AuthReturnsToLoop ==
    cl.op = "send" /\ cl.pc \in AuthPcs /\ cl'.pc \notin AuthPcs /\ cl'.result # "raised"

\* a submit attempt ends with status 401 or 419
AuthStatusReceived ==
    /\ cl.pc \in {"post", "wait"} /\ Len(cl'.rsps) = Len(cl.rsps) + 1
    /\ Last(cl'.rsps) \in {UNAUTHORIZED, EXPIRED}

\* C9 as claimed: every authenticate that send_msg triggers is followed by
\* another submit attempt.
C9_ReauthThenRetry == [][AuthReturnsToLoop => cl'.pc = "post"]_vars

\* C9 amended: a 401 or 419 always starts an authenticate; the attempt is
\* used up all the same, so when authenticate returns a submit follows
\* only after the 1st or 2nd attempt, and after the 3rd send_msg returns
\* false; when authenticate raises, send_msg ends without a retry.
C9_ReauthConsumesAttempt ==
    [][/\ AuthStatusReceived => cl'.pc = "a_live" /\ cl'.attempt = cl.attempt
       /\ AuthReturnsToLoop =>
             /\ cl'.attempt = cl.attempt + 1
             /\ IF cl.attempt < 3 THEN cl'.pc = "post"
                ELSE cl'.pc = "idle" /\ cl'.result = "false"
       /\ cl.pc \in AuthPcs /\ cl'.result = "raised" => cl'.pc = "idle"]_vars

\* C9 witness: the 3rd attempt got 401 or 419, the authenticate it
\* triggered succeeded, and send_msg returned false
C9_Witness ==
    /\ SendDone /\ cl.result = "false" /\ Len(cl.rsps) = 3
    /\ Last(cl.rsps) \in {UNAUTHORIZED, EXPIRED}
    /\ Len(cl.auths) >= 1 /\ Last(cl.auths) = "true"

\* C10: send_msg, _authenticate and _is_running_check end by returning a
\* boolean.
C10_AlwaysBoolean == cl.pc = "idle" /\ cl.op # "none" => cl.result \in {"true", "false"}

\* ------------------------------------------------------------ supervisor
\* the listener workers and the control threads that are alive
AliveWorkers == (IF sup.process = "alive" THEN 1 ELSE 0) + sup.orphans
AliveThreads == (IF sup.thread = "alive" THEN 1 ELSE 0) + sup.lost

\* start() returns in this step
StartReturns == sup.cpc = "start" /\ sup'.cpc = "idle"

\* C11: whatever start() and stop() calls were made, after a crash of the
\* worker or a stop() that timed out too, at most one listener worker and
\* one control thread are alive; a start() that finds the control thread
\* alive returns true and spawns neither a worker nor a thread
C11_SingleWorker ==
    /\ [](AliveWorkers <= 1 /\ AliveThreads <= 1)
    /\ [][StartReturns /\ sup.thread = "alive"
          => /\ sup'.cres = "true"
             /\ AliveWorkers' = AliveWorkers /\ AliveThreads' = AliveThreads
             /\ sup'.process = sup.process /\ sup'.tpc = sup.tpc]_vars

\* a second start() with no stop() between has found the control thread
\* and its worker alive and returned true
C11_Witness ==
    /\ sup.cop = "start" /\ sup.cres = "true" /\ sup.prev = [op |-> "start", res |-> "true"]
    /\ sup.thread = "alive" /\ sup.process = "alive" /\ sup.tpc = "loop"

\* C12: whenever stop() has returned true, the control thread has ended
\* and no listener worker is alive
C12_StopSuccessMeansStopped ==
    sup.cpc = "idle" /\ sup.cop = "stop" /\ sup.cres = "true"
    => AliveThreads = 0 /\ AliveWorkers = 0

\* stop() is called in this step
StopCalled == sup.cpc = "idle" /\ sup'.calls # sup.calls /\ sup'.cop = "stop"

\* the worker, the control thread and the stop event
Supervised ==
    <<sup.thread, sup.tpc, sup.cnt, sup.tres, sup.stop, sup.process, sup.orphans, sup.lost>>

\* C13: a stop() of a supervisor with no control thread, never started or
\* stopped with success before, returns true at once and changes neither
\* the worker, the control thread nor the session table
C13_StopIdempotent ==
    [][StopCalled /\ sup.thread = "none"
       => /\ sup'.cpc = "idle" /\ sup'.cres = "true"
          /\ Supervised' = Supervised
          /\ clients' = clients]_vars

\* the second of two stop() calls that returned true, after a start()
\* whose worker the first one terminated
C13_Witness ==
    /\ sup.cpc = "idle" /\ sup.cop = "stop" /\ sup.cres = "true"
    /\ sup.prev = [op |-> "stop", res |-> "true"]
    /\ sup.thread = "none" /\ sup.tres = "true" /\ sup.process = "none"

\* C14: a control thread in its loop whose worker has died ends with
\* false unless a stop() comes first; only the first step of a control
\* thread makes a worker alive and only start() makes a control thread, so
\* no listener is alive again before the next start()
C14_WorkerDeathEndsLoop ==
    /\ (sup.thread = "alive" /\ sup.tpc = "loop" /\ sup.process = "dead" /\ ~sup.stop)
         ~> ((sup.thread = "dead" /\ sup.tres = "false") \/ sup.stop)
    /\ [][AliveWorkers' > AliveWorkers => sup.thread = "alive" /\ sup.tpc = "spawn"]_vars
    /\ [][AliveThreads' > AliveThreads => StartReturns]_vars

\* start() was the only call, the worker died and the control thread ended
\* with false
C14_Witness ==
    /\ sup.cop = "start" /\ sup.cres = "true" /\ sup.prev.op = "none"
    /\ sup.thread = "dead" /\ sup.tres = "false" /\ sup.process = "dead"

\* ----------------------------------------------------------------- sweep
\* C15: with nothing else writing the table, every change a sweep makes
\* removes one entry whose expiresAt is at or before the sweep's time, an
\* entry the authorization check rejects at that time, and leaves the
\* other entries as they are; when the sweep ends no such entry is left
C15_SweepRemovesExpired ==
    /\ [][clients' # clients
          => \E ip \in DOMAIN clients :
                /\ clients' = Remove(clients, ip)
                /\ clients[ip] <= sw.now /\ Stale(ip, sw.now)]_vars
    /\ [][sw.pc # "idle" /\ sw'.pc = "idle"
          => \A ip \in DOMAIN clients' : clients'[ip] > sw.now]_vars

\* the sweep has looked at the entry of a2, which the check accepts, and
\* kept it, and has found the entry of a1 expired and removes it
C15_Witness ==
    /\ sw.pc = "del" /\ sw.ip = "a1" /\ sw.keys = {"a1"}
    /\ DOMAIN clients = {"a1", "a2"}
    /\ clients["a2"] > sw.now /\ ~Stale("a2", sw.now) /\ clients["a1"] <= sw.now

\* C16: an entry whose expiresAt is in the future is never deleted
C16_RefreshedEntryKept ==
    [][\A ip \in DOMAIN clients : clients[ip] > now => ip \in DOMAIN clients']_vars

\* -------------------------------------------------- certificate authority
\* C17: the first certificate issued after the counter file was made has
\* serial number 1
C17_FirstSerialIsOne == ca.issued # <<>> => ca.issued[1] = 1

\* C18: with one writer, the certificates issued since a serial number was
\* last lost, the counter being s then, have the serial numbers s+1, s+2,
\* ... in order, and between calls the counter is the last of them
C18_SerialsConsecutive ==
    /\ \A k \in 1..(Len(ca.issued) - ca.from) : ca.issued[ca.from + k] = ca.base + k
    /\ ca.p[1].pc = "idle" /\ Len(ca.issued) > ca.from => ca.serial = Last(ca.issued)

\* two certificates in a row were issued after an issuance that failed
\* with its serial number taken
C18_Witness ==
    /\ ca.p[1].pc = "idle" /\ ca.p[1].res = "true"
    /\ ca.from >= 1 /\ Len(ca.issued) >= ca.from + 2

\* C19: no two certificates that were issued have the same serial number
C19_NoSerialReuse ==
    \A a, b \in 1..Len(ca.issued) : a # b => ca.issued[a] # ca.issued[b]

\* C20: when create() has returned false, the counter and the root
\* certificate and key are what they were when it was called
C20_FailedIssuanceNoChange ==
    ca.p[1].pc = "idle" /\ ca.p[1].kind = "leaf" /\ ca.p[1].res = "false"
    => ca.serial = ca.p[1].s0 /\ <<ca.rootCert, ca.rootKey>> = ca.p[1].r0

\* create() is called in this step
CreateCalled == ca'.calls # ca.calls /\ ca'.p[1].kind = "leaf"

\* _initialize_cert_authority() is called in this step
InitializeCalled == ca'.calls # ca.calls /\ ca'.p[1].kind = "root"

\* C21: create() called while the root certificate or the root key cannot
\* be loaded returns false at once; the counter, the certificate and key
\* files of the name and the certificates issued are as before
C21_NoRootNoIssuance ==
    [][CreateCalled /\ (ca.rootCert = 0 \/ ca.rootKey = 0)
       => /\ ca'.p[1].pc = "idle" /\ ca'.p[1].res = "false"
          /\ ca'.serial = ca.serial /\ ca'.issued = ca.issued
          /\ ca'.leafCert = ca.leafCert /\ ca'.leafKey = ca.leafKey]_vars

\* create() has returned false with a root certificate and no root key
C21_Witness ==
    /\ ca.p[1].pc = "idle" /\ ca.p[1].kind = "leaf" /\ ca.p[1].res = "false"
    /\ ca.p[1].r0[1] # 0 /\ ca.p[1].r0[2] = 0
    /\ ca.rootKey = 0 /\ ca.serial = ca.p[1].s0

\* C22: _initialize_cert_authority() without force, called while a root
\* certificate file exists, returns true at once and leaves the root
\* certificate, the root key and the counter as they are
C22_InitIdempotent ==
    [][InitializeCalled /\ ~ca'.p[1].force /\ ca.rootCert # 0
       => /\ ca'.p[1].pc = "idle" /\ ca'.p[1].res = "true"
          /\ ca'.rootCert = ca.rootCert /\ ca'.rootKey = ca.rootKey
          /\ ca'.roots = ca.roots
          /\ ca'.serial = ca.serial /\ ca'.issued = ca.issued]_vars

\* the third call at least, made without force on a root that is there
C22_Witness ==
    /\ ca.p[1].pc = "idle" /\ ca.p[1].kind = "root" /\ ca.p[1].res = "true"
    /\ ~ca.p[1].force /\ ca.calls >= 3
    /\ ca.rootCert # 0 /\ ca.p[1].r0 = <<ca.rootCert, ca.rootKey>>
    /\ ca.p[1].s0 = ca.serial

\* C23: when _initialize_cert_authority() has returned true, the root
\* certificate and the root key are both in their files and are those of
\* one root
C23_RootPairPersisted ==
    ca.p[1].pc = "idle" /\ ca.p[1].kind = "root" /\ ca.p[1].res = "true"
    => ca.rootCert # 0 /\ ca.rootKey = ca.rootCert

\* ------------------------------------------------------------ the sink
\* C24: a submit handler that has a message for the sink can always take
\* its next step and go on to its response, whether the sink is full or
\* not
C24_FullSinkNoBlock == h.pc = "put" => ENABLED QueuePut

\* ------------------------------------------------------------- requests
\* C25: in every state, an authenticate request from any address with a
\* sealed mapping of credentials that the credential store rejects is
\* answered 401 and leaves the session table as it is
C25_FailedAuthNoChange ==
    \A ip \in Addrs :
       LET r == client_auth_route("env", ip, pickle_dumps(Dict("bad"), Key), TRUE)
       IN  /\ r.h.pc = "respond" /\ r.h.status = UNAUTHORIZED
           /\ r.tbl = clients

\* rejected credentials were answered 401 and the caller's entry, not
\* expired, is there still
C25_Witness ==
    /\ h.pc = "respond" /\ h.route = "auth" /\ h.status = UNAUTHORIZED
    /\ IsDict(h.msg) /\ ~authenticate_user(h.msg)
    /\ ~Stale(h.ip, now)

\* sealed with another key, not an envelope, or no mapping
UnreadableBodies == {pickle_dumps(Dict("e"), OtherKey), Garbage, pickle_dumps(NonDict, Key)}

\* C26: in every state, a submit from any address whose body does not
\* unseal under the server's key or unseals to something that is no
\* mapping is answered 500 at once, with or without a live session of the
\* address; neither that step nor the return of the response changes the
\* session table or the queue
C26_UnreadableSubmitFails ==
    /\ [](\A ip \in Addrs, body \in UnreadableBodies :
             SubmitBegin("env", ip, body, 0) =
                Respond([HIdle EXCEPT !.route = "submit", !.src = "env"], FAILED))
    /\ [][h' # h /\ h'.route = "submit" /\ ~IsDict(h'.msg)
          => h'.pc = "respond" /\ h'.status = FAILED
             /\ clients' = clients /\ queue' = queue]_vars
    /\ [][h' # h /\ h.route = "submit" /\ ~IsDict(h.msg)
          => clients' = clients /\ queue' = queue]_vars

\* an unreadable submit was answered 500 while every address had a live
\* session
C26_Witness ==
    /\ h.pc = "respond" /\ h.route = "submit" /\ ~IsDict(h.msg) /\ h.status = FAILED
    /\ \A ip \in Addrs : ~Stale(ip, now)

\* -------------------------------------------------------------- run_test
\* the first attempt of the running send_msg has been answered and its
\* re-authentication, if any, has not reached the server
FirstAnswered ==
    /\ cl.op = "send" /\ Len(cl.rsps) = 1 /\ cl.auths = <<>>
    /\ cl.pc \in {"idle", "a_live", "a_post"}

\* C27: with a client that never called _authenticate itself, the first
\* send_msg is answered 419 and, ended less than a session's lifetime
\* after the server's start, has re-authenticated once and returned true
\* on its second attempt; a later send_msg whose first attempt is answered
\* before the expiresAt of the client's session is answered 200 and
\* returns true
C27_RunTestSucceeds ==
    /\ cl.calls = 1 /\ cl.op = "send" /\ cl.rsps # <<>> => cl.rsps[1] = EXPIRED
    /\ cl.calls = 1 /\ SendDone /\ now < SessionTTL
       => cl.rsps = <<EXPIRED, OK>> /\ cl.auths = <<"true">> /\ cl.result = "true"
    /\ cl.calls > 1 /\ FirstAnswered /\ now < cl.until
       => cl.rsps = <<OK>> /\ cl.result = "true"

\* ------------------------------------------------------------- ordering
\* the send_msg call a waiting message comes from, 0 if from none
CallOf(m) ==
    IF \E k \in 1..cl.calls : Msg(k) = m
    THEN CHOOSE k \in 1..cl.calls : Msg(k) = m
    ELSE 0

\* the handler hands a message of the client to the sink
Enqueues == h.pc = "put" /\ h.call # 0 /\ Len(queue') = Len(queue) + 1

\* C28: with one client whose send_msg calls follow each other, the sink
\* receives no message of a call after a message of a later call, and the
\* messages waiting in the queue stand in the order of their calls, the
\* order in which the sink takes them
C28_SinkOrder ==
    /\ [](\A i, j \in DOMAIN queue : i < j => CallOf(queue[i]) <= CallOf(queue[j]))
    /\ [][Enqueues => h.call >= cl.top /\ queue' = Append(queue, Msg(h.call))]_vars

\* the message of the second send_msg joins the waiting message of the
\* first
C28_Witness ==
    /\ cl.calls = 2 /\ cl.top = 2
    /\ queue = <<Msg(1), Msg(2)>>

\* -------------------------------------------------------------- envelope
\* pickle_loads has returned
Opened == wire.pc = "opened"
\* what it was given is not what pickle_dumps returned
Tampered == wire.text # wire.sent

\* C29: pickle_loads of what pickle_dumps made of a mapping, with the same
\* key, returns a mapping equal to it
C29_RoundTrip ==
    Opened /\ ~Tampered /\ wire.okey = wire.key => wire.out = Returned(wire.msg)

\* a mapping of two names went through
C29_Witness ==
    /\ Opened /\ ~Tampered /\ wire.okey = wire.key
    /\ DOMAIN wire.msg = Names /\ wire.msg["a"] # wire.msg["b"]
    /\ wire.out = Returned(wire.msg)

\* C30 as stated: pickle_loads of a payload altered in any place, or with
\* another key than it was sealed with, returns None
C30_AnyAlterationFails ==
    Opened /\ (Tampered \/ wire.okey # wire.key) => ~wire.out.ok

\* C30: pickle_loads with another key returns None; of an altered payload
\* it returns None whenever the text decodes to other bytes than the token
\* sealed, and it never returns a value other than the sealed mapping
C30_TamperRejection ==
    Opened =>
      /\ wire.okey # wire.key => ~wire.out.ok
      /\ b64decode(wire.text) # b64decode(wire.sent) => ~wire.out.ok
      /\ wire.out.ok => wire.out.val = wire.msg

\* a payload with one character replaced by another of the alphabet was
\* refused under the right key
C30_Witness ==
    /\ Opened /\ wire.okey = wire.key /\ ~wire.out.ok
    /\ Len(wire.text) = Len(wire.sent)
    /\ \E i \in DOMAIN wire.text : wire.text[i] # wire.sent[i] /\ wire.text[i] < Pad

\* ------------------------------------------------------------- liveness
\* the handler of /is/running has its response
LiveAnswered == h.route = "live" /\ h.pc = "respond"

\* C31: /is/running is answered 200 whatever the session table and the
\* queue hold and whoever asks, and the request changes neither the
\* session table nor the queue
C31_LivenessPure ==
    /\ [](LiveAnswered => h.status = OK)
    /\ [][h'.route = "live" /\ h.route # "live" => UNCHANGED <<clients, queue>>]_vars

\* a peer without a session is answered while another peer has a session
\* and a message waits in the queue
C31_Witness ==
    /\ LiveAnswered /\ h.status = OK
    /\ h.ip \notin DOMAIN clients /\ clients # <<>> /\ queue # <<>>

\* ------------------------------------------------------ resolved address
\* the address the claim resolves the request in the handler to
Resolved == IF h.fwd # "none" THEN h.fwd ELSE h.sock
ResolvedNext == IF h'.fwd # "none" THEN h'.fwd ELSE h'.sock

\* C32: with x-forwarded-for the first value of the header, otherwise the
\* socket address, is the key under which client_auth_route installs the
\* session and under which msg_submit_route looks for it: the submit goes
\* on to the queue exactly when that key has an entry that is not expired,
\* whatever the socket address is
C32_ResolvedAddressIsKey ==
    /\ [](h.sock # "none" /\ h.pc \in {"contains", "getitem", "delitem", "put"}
            => h.ip = Resolved)
    /\ [][h.pc = "idle" /\ h'.route = "auth" /\ h'.sock # "none" /\ h'.status = OK
            => /\ DOMAIN clients' = DOMAIN clients \cup {ResolvedNext}
               /\ \A a \in DOMAIN clients' :
                     clients'[a] = IF a = ResolvedNext THEN now + SessionTTL ELSE clients[a]]_vars
    /\ [][h.sock # "none" /\ h.pc = "contains" /\ h'.pc # "contains"
            => (h'.pc = "getitem" <=> Resolved \in DOMAIN clients)]_vars
    /\ [][h.sock # "none" /\ h.pc = "getitem" /\ h'.pc # "getitem"
            => (h'.pc = "put" <=> Resolved \in DOMAIN clients /\ clients[Resolved] > now)]_vars

\* a submit from a socket address without a session is let through on the
\* session of the address its header names
C32_Witness ==
    /\ h.pc = "put" /\ h.fwd = "a2" /\ h.sock = "a1"
    /\ "a1" \notin DOMAIN clients /\ "a2" \in DOMAIN clients

\* -------------------------------------------------- failed re-authentication
\* the _authenticate that send_msg's retry loop called returns False
ReauthFails ==
    /\ cl.op = "send" /\ Len(cl'.auths) = Len(cl.auths) + 1
    /\ Last(cl'.auths) = "false"

\* C33: when the _authenticate called after a 401 or 419 returns False,
\* send_msg makes no further submit attempt and returns False
C33_FailedReauthStops ==
    [][ReauthFails => cl'.pc = "idle" /\ cl'.result = "false"]_vars

\* ------------------------------------------------------------ is_running
\* WebServer.is_running: the control thread is referred to and alive
is_running == sup.thread = "alive"

\* C34: is_running is true only while the worker is alive: with the
\* control thread past the spawning of the worker, is_running true means
\* that the worker process is alive
C34_RunningMeansWorkerAlive ==
    is_running /\ sup.tpc \in {"loop", "term"} => sup.process = "alive"

\* ------------------------------------------------------- start() succeeds
\* the last call was a start() that returned True
StartedTrue == sup.cpc = "idle" /\ sup.cop = "start" /\ sup.cres = "true"
\* the control thread ended because Process.start() raised
SpawnFailed == sup.thread = "dead" /\ sup.tres = "false" /\ sup.process = "none"

\* C35: start() returns True only for a server that started: not when the
\* spawning of the worker fails, and not when the control thread it finds
\* alive is already at the termination of the worker
C35_StartTrueMeansStarted ==
    /\ [](StartedTrue => ~SpawnFailed)
    /\ [][sup.cpc = "start" /\ sup.thread = "alive" /\ sup.tpc = "term"
            /\ sup'.cpc = "idle" => sup'.cres = "false"]_vars

\* -------------------------------------------------- handler and sweep
\* C36: whatever the sweep removes while msg_submit_route checks the
\* session of a mapping's sender, the handler answers 419 or 200, never 500
C36_SweepNeverFailsSubmit ==
    h.route = "submit" /\ h.pc = "respond" /\ IsDict(h.msg) => h.status \in {EXPIRED, OK}

\* the sweep ends in this step
SweepEnds == sw.pc # "idle" /\ sw'.pc = "idle"

\* C37: when a sweep ends, no entry that was expired at the sweep's time
\* is left in the table, also when handlers have removed keys after the
\* sweep took its list of keys
C37_SweepCompletesDespiteRemovals ==
    [][SweepEnds => \A ip \in DOMAIN clients' : ~(sw.now >= clients'[ip])]_vars

\* ------------------------------------------------------------ stop signal
\* stop() has set the stop event and the control thread is in its loop
StopSignalled == sup.cpc = "join" /\ sup.stop /\ sup.thread = "alive" /\ sup.tpc = "loop"

\* C38: once stop() has set the stop event for a control thread in its
\* loop, the thread leaves the loop, whatever a start() in another
\* application thread does meanwhile
C38_StopNeverLost == StopSignalled ~> (sup.tpc # "loop")

\* ------------------------------------------------------- reported success
\* send_msg or _authenticate returns True in this step
ReturnsTrue ==
    /\ cl.pc # "idle" /\ cl'.pc = "idle" /\ cl'.result = "true"
    /\ cl'.op \in {"send", "auth"}

\* C39: send_msg and _authenticate return True only on the server's 200 to
\* their POST: in the step in which they return True the handler of that
\* route hands its response 200 to the client
C39_TrueOnlyOnServer200 ==
    [][ReturnsTrue => /\ h.pc = "respond" /\ h.src = "client" /\ h.status = OK
                      /\ h.route = (IF cl'.op = "send" THEN "submit" ELSE "auth")]_vars

====
